---- MODULE Spec2Model ----
(***************************************************************************)
(* A model of ftrack_api_explorer.py: the FTrackExplorer window, its       *)
(* EntityCache, and the daemon threads that executeAll, executeFirst and   *)
(* loadEntity start.  The GUI thread runs one handler at a time; the       *)
(* worker threads interleave with it and with each other at every access   *)
(* to shared state (the tree model, EntityCache.Cache / Entities / Types,  *)
(* os.environ, the auto-populate check box).                               *)
(***************************************************************************)
EXTENDS Integers, Sequences, FiniteSets, TLC

VARIABLES
    queryText,     \* QueryEdit text
    completerSet,  \* QueryEdit._completerSet
    autoPop,       \* self._autoPopulate.isChecked()
    env,           \* os.environ, restricted to the three FTRACK_ variables
    captured,      \* self._ftrack_server / _ftrack_api_key / _ftrack_api_user
    Types,         \* EntityCache.Types
    Entities,      \* EntityCache.Entities
    Cache,         \* EntityCache.Cache
    storage,       \* attribute storage of the entity objects held in Entities
    items,         \* the QStandardItemModel: item path -> item
    threads,       \* the threads started by deferred()
    guiPc,         \* position of the GUI thread inside a handler
    typesCall      \* the outcome of the latest EntityCache.types() call

vars == <<queryText, completerSet, autoPop, env, captured, Types, Entities,
          Cache, storage, items, threads, guiPc, typesCall>>

-----------------------------------------------------------------------------
(* Bounds of the model. *)

\* Threads the model lets deferred() start in one run of the query window
\* (Spec, SpecCred), and in one run with expansions (SpecTree).
MaxThreads == 2
TreeThreads == 3

ThreadIds == 1..(IF MaxThreads > TreeThreads THEN MaxThreads ELSE TreeThreads)

-----------------------------------------------------------------------------
(* The ftrack server's data: two tasks and a project.  Strings that the    *)
(* code joins and splits are sequences of characters.                      *)

None == "None"

EntityIds == {"T1", "T2", "P1"}

\* type(entity).entity_type, also entity.__class__.__name__
EntityTypeOf(e) == IF e = "P1" THEN "Project" ELSE "Task"

\* type(entity).primary_key_attributes is ('id',); the values, as strings
PrimaryKeyValues(e) ==
    CASE e = "T1" -> << <<"a">> >>
      [] e = "T2" -> << <<"b">> >>
      [] e = "P1" -> << <<"c">> >>

\* the attributes of each entity type, with the kind of each
AttributeKind(type, key) ==
    CASE key = "name" -> "scalar"
      [] key = "project" -> "reference"
      [] key = "children" -> "collection"
      [] key = "descendants" -> "collection"
      [] key = "metadata" -> "keyvalue"

\* entity.keys()
EntityKeys(e) ==
    IF EntityTypeOf(e) = "Project"
    THEN {"descendants", "name"}
    ELSE {"children", "metadata", "name", "project"}

\* the keys whose remote value a freshly fetched entity carries (scalars)
DefaultLoaded(e) == {k \in EntityKeys(e) : AttributeKind(EntityTypeOf(e), k) = "scalar"}

\* entity[key] for a reference attribute
ReferenceOf(e, key) == "P1"

\* entity[key] for a collection attribute: the entities in it
CollectionOf(e, key) ==
    CASE e = "T1" /\ key = "children" -> <<"T2">>
      [] e = "P1" /\ key = "descendants" -> <<"T1", "T2">>
      [] OTHER -> <<>>

\* sorted(entity[key].items()) for a key-value collection
KeyValueItemsOf(e, key) == IF e = "T1" THEN << <<"k", "v">> >> ELSE <<>>

\* The query texts the user types: empty, two results, no result, and one
\* that session.query rejects with a KeyError.
Queries == {"", "Task", "Note", "bad"}

\* session.query(query), for the queries the server accepts
QueryResults(q) == IF q = "Task" THEN <<"T1", "T2">> ELSE <<>>

QueryIsInvalid(q) == q = "bad"

\* session.types
Schema == {"Task", "Project"}
NoTypes == {}

\* The order of Python's sorted() on the attribute keys of the model.
KeyOrder == <<"children", "descendants", "metadata", "name", "project">>

-----------------------------------------------------------------------------
(* Strings. *)

\* seq[:n] taken for seq
TakeAll(seq, n) == seq

\* seq[:n]
Take(seq, n) == SubSeq(seq, 1, IF n < Len(seq) THEN n ELSE Len(seq))

\* the characters of a string, as one string
RECURSIVE Chars(_)
Chars(s) == IF s = <<>> THEN "" ELSE Head(s) \o Chars(Tail(s))

\* ';'.join(strings)
RECURSIVE Join(_)
Join(strs) ==
    IF strs = <<>> THEN <<>>
    ELSE IF Len(strs) = 1 THEN Head(strs)
    ELSE Head(strs) \o <<";">> \o Join(Tail(strs))

\* string.split(';')
RECURSIVE Split(_)
Split(s) ==
    IF \A i \in 1..Len(s) : s[i] # ";" THEN <<s>>
    ELSE LET i == CHOOSE j \in 1..Len(s) :
                      s[j] = ";" /\ \A k \in 1..(j - 1) : s[k] # ";"
         IN  <<SubSeq(s, 1, i - 1)>> \o Split(SubSeq(s, i + 1, Len(s)))

\* ', '.join(f'{k}={v!r}' ...) for the primary key ('id',)
RECURSIVE ReprArgs(_)
ReprArgs(ids) ==
    IF ids = <<>> THEN ""
    ELSE "id='" \o Chars(Head(ids)) \o "'"
         \o (IF Len(ids) > 1 THEN ", " ELSE "") \o ReprArgs(Tail(ids))

\* entityRepr(entityType, entityID): zip() stops at the one primary key
entityRepr(type, ids) == type \o "(" \o ReprArgs(Take(ids, 1)) \o ")"

\* entityRepr(entity)
ReprTable == [e \in EntityIds |-> entityRepr(EntityTypeOf(e), PrimaryKeyValues(e))]
entityReprOf(e) == ReprTable[e]

Names == {ReprTable[e] : e \in EntityIds}

\* session.get(entityType, entityID)
SessionGet(type, ids) ==
    IF \E e \in EntityIds : EntityTypeOf(e) = type /\ PrimaryKeyValues(e) = ids
    THEN CHOOSE e \in EntityIds : EntityTypeOf(e) = type /\ PrimaryKeyValues(e) = ids
    ELSE None

\* position of a row text in Python's string order ('<' sorts before letters)
Rank(text) ==
    IF \E i \in 1..Len(KeyOrder) : KeyOrder[i] = text
    THEN CHOOSE i \in 1..Len(KeyOrder) : KeyOrder[i] = text
    ELSE 0

\* sorted(texts)
RECURSIVE Sorted(_)
Sorted(texts) ==
    IF texts = <<>> THEN <<>>
    ELSE LET i == CHOOSE j \in 1..Len(texts) :
                      \A k \in 1..Len(texts) : Rank(texts[j]) <= Rank(texts[k])
         IN  <<texts[i]>> \o
             Sorted(SubSeq(texts, 1, i - 1) \o SubSeq(texts, i + 1, Len(texts)))

\* sorted(keys) for a set of keys
SortedKeys(keys) ==
    LET idx == {i \in 1..Len(KeyOrder) : KeyOrder[i] \in keys}
        RECURSIVE Up(_)
        Up(S) == IF S = {} THEN <<>>
                 ELSE LET m == CHOOSE i \in S : \A j \in S : i <= j
                      IN  <<KeyOrder[m]>> \o Up(S \ {m})
    IN  Up(idx)

-----------------------------------------------------------------------------
(* The tree model.  An item is named by the path of creation ordinals that *)
(* leads to it from the invisible root; rows lists an item's child rows in *)
(* display order.  Only column 0 and the item roles are kept.              *)

Root == <<>>
DummyText == "<not loaded>"

\* QStandardItem(text), with no role set
NewItem(text) ==
    [text |-> text, Visit |-> None, Dummy |-> None, AutoPopulate |-> None,
     EntityKey |-> None, EntityType |-> None, EntityPrimaryKey |-> <<>>,
     rows |-> <<>>, made |-> 0]

EmptyModel == [p \in {Root} |-> NewItem("")]

rowCount(its, p) == Len(its[p].rows)

ChildPath(p, i, its) == Append(p, its[p].rows[i])

\* [item.child(row).text() for row in range(item.rowCount())]
ChildTexts(its, p) == [i \in 1..rowCount(its, p) |-> its[ChildPath(p, i, its)].text]

InsertAt(seq, i, x) == SubSeq(seq, 1, i) \o <<x>> \o SubSeq(seq, i + 1, Len(seq))

\* appendRow(parent, entityKey, ..., row): row is -1 for None (append) or a
\* 0-based index; the new item's path is Append(parent, its[parent].made)
appendRow(its, parent, text, row) ==
    LET ord == its[parent].made
        at == IF row < 0 THEN rowCount(its, parent)
              ELSE IF row > rowCount(its, parent) THEN rowCount(its, parent) ELSE row
        child == Append(parent, ord)
    IN  [p \in DOMAIN its \cup {child} |->
            IF p = child THEN NewItem(text)
            ELSE IF p = parent
                 THEN [its[p] EXCEPT !.rows = InsertAt(@, at, ord), !.made = ord + 1]
                 ELSE its[p]]

NewChild(its, parent) == Append(parent, its[parent].made)

\* addDummyItem(parent, entity, key): the roles, then the '<not loaded>' row
addDummyItem(its, parent, e, key) ==
    LET marked == [its EXCEPT ![parent] =
                      [@ EXCEPT !.Dummy = "True",
                                !.EntityKey = key,
                                !.EntityType = EntityTypeOf(e),
                                !.EntityPrimaryKey = Join(PrimaryKeyValues(e))]]
    IN  appendRow(marked, parent, DummyText, -1)

\* A value handed to addItem: a scalar, an Entity, a Collection (or its
\* placeholder), a KeyValueMappedCollectionProxy (or its placeholder).
ScalarValue == [kind |-> "scalar", e |-> None]
EntityValue(e) == [kind |-> "entity", e |-> e]
CollectionValue == [kind |-> "collection", e |-> None]
KeyValueValue == [kind |-> "keyvalue", e |-> None]

\* addItem(parent, key, value, entity, row): the model after it.  The data of
\* the model holds no list, tuple or dict attribute value.
addItem(its, parent, key, value, entity, row) ==
    LET child == NewChild(its, parent)
    IN  CASE value.kind = "entity" ->
               addDummyItem(
                   appendRow(its, parent,
                             IF key = None THEN entityReprOf(value.e) ELSE key, row),
                   child, value.e, "")
          [] value.kind \in {"collection", "keyvalue"} ->
               addDummyItem(appendRow(its, parent, key, row), child, entity, key)
          [] OTHER -> appendRow(its, parent, key, row)

\* removeRow(0, index) that removes nothing
keepFirstRow(its, p) == its

\* removeRow(0, index): the item's first row and everything under it
removeFirstRow(its, p) ==
    IF its[p].rows = <<>> THEN its
    ELSE LET gone == ChildPath(p, 1, its)
             keep == {q \in DOMAIN its :
                         ~(Len(q) >= Len(gone) /\ SubSeq(q, 1, Len(gone)) = gone)}
         IN  [q \in keep |-> IF q = p THEN [its[q] EXCEPT !.rows = Tail(@)] ELSE its[q]]

\* model.removeRows(0, model.rowCount())
removeAllRows(its) == EmptyModel

-----------------------------------------------------------------------------
(* os.environ and the exceptions of the server calls. *)

Unset == "unset"
EnvVars == {"FTRACK_SERVER", "FTRACK_API_KEY", "FTRACK_API_USER"}

\* the order in which checkCredentials calls createPopup
CredOrder == <<"FTRACK_SERVER", "FTRACK_API_KEY", "FTRACK_API_USER">>

\* What a call to the server can raise: a ConnectionError, a ServerError whose
\* text (after its 23-character prefix) mentions a header, a ServerError that
\* mentions neither, an exception of another class.
AllFails == {"ConnectionError", "ServerError: ftrack-user",
             "ServerError: ftrack-api-key", "ServerError", "TypeError"}
PlainFails == {"ServerError"}

IsServerError(e) ==
    e \in {"ServerError: ftrack-user", "ServerError: ftrack-api-key", "ServerError"}

\* errorHandler deleting no variable
NoneDeleted(e) == {}

\* the variables errorHandler deletes for exception e
Deleted(e) ==
    (IF IsServerError(e) /\ e = "ServerError: ftrack-user"
     THEN {"FTRACK_API_USER"} ELSE {})
    \cup (IF IsServerError(e) /\ e = "ServerError: ftrack-api-key"
          THEN {"FTRACK_API_KEY"} ELSE {})
    \cup (IF e = "ConnectionError" THEN {"FTRACK_SERVER"} ELSE {})

\* os.environ after the except clause of errorHandler's wrapper
envAfterError(e) == [v \in EnvVars |-> IF v \in Deleted(e) THEN Unset ELSE env[v]]

-----------------------------------------------------------------------------
(* EntityCache. *)

NoEntity == [e |-> None, by |-> 0]

\* EntityCache.types(session) that looks at no cached types
typesUncached(T, given, out) ==
    IF out = "ok"
    THEN [Types |-> Schema, opened |-> TRUE, result |-> Schema, exc |-> None]
    ELSE [Types |-> T, opened |-> TRUE, result |-> {}, exc |-> out]

\* EntityCache.types(session), as a function of EntityCache.Types, of whether
\* a session is passed, and of what a session opened by the call does ("ok"
\* or the exception it raises): the new Types, whether the call opened a
\* session, the mapping returned and the exception raised by the body.
types(T, given, out) ==
    IF T # NoTypes
    THEN [Types |-> T, opened |-> FALSE, result |-> T, exc |-> None]
    ELSE IF given
    THEN [Types |-> Schema, opened |-> FALSE, result |-> Schema, exc |-> None]
    ELSE IF out = "ok"
    THEN [Types |-> Schema, opened |-> TRUE, result |-> Schema, exc |-> None]
    ELSE [Types |-> T, opened |-> TRUE, result |-> {}, exc |-> out]

\* What errorHandler's wrapper does around EntityCache.types when the body
\* raised exc: self is the class, which has no errorInThread signal, so the
\* emit raises AttributeError in place of the re-raise.
typesWrapper(r, had, given) ==
    [hadTypes |-> had, given |-> given, opened |-> r.opened, result |-> r.result,
     exc |-> r.exc,
     emitted |-> 0,
     reraised |-> IF r.exc = None THEN None ELSE "AttributeError"]

NoCall == [hadTypes |-> FALSE, given |-> FALSE, opened |-> FALSE, result |-> {},
           exc |-> None, emitted |-> 0, reraised |-> None]

\* EntityCache.entity(name): cls.Entities.get(name)
entity(name) == IF name \in DOMAIN Entities THEN Entities[name] ELSE NoEntity

\* EntityCache.reset()
reset(c) == [n \in Names |-> {}]

\* isKeyLoaded(entity, key) for the object obj.  storage holds what has been
\* read into the registered object of each name; an object that is not the
\* registered one has the keys it was fetched with.
isKeyLoaded(obj, key) ==
    \/ key \in DefaultLoaded(obj.e)
    \/ Entities[entityReprOf(obj.e)] = obj /\ key \in storage[entityReprOf(obj.e)]

\* EntityCache.load(entity) on a query result: the loaded keys are scalars, so
\* no reference or collection is followed
load(c, e) == [c EXCEPT ![entityReprOf(e)] = @ \cup DefaultLoaded(e)]

\* the value addItem gets for attribute key of entity e
ValueOf(e, key) ==
    CASE AttributeKind(EntityTypeOf(e), key) = "reference" -> EntityValue(ReferenceOf(e, key))
      [] AttributeKind(EntityTypeOf(e), key) = "collection" -> CollectionValue
      [] AttributeKind(EntityTypeOf(e), key) = "keyvalue" -> KeyValueValue
      [] OTHER -> ScalarValue

-----------------------------------------------------------------------------
(* Threads. *)

NoParent == <<-1>>
Stale == <<-2>>

\* the locals of createPopup when no dialog is open
NoPrompt == [key |-> None, text |-> None, answer |-> None]

NoThread ==
    [kind |-> "none", pc |-> "none", query |-> "", etype |-> "", ids |-> <<>>,
     key |-> "", parent |-> NoParent, loaded |-> <<>>, auto |-> None,
     ents |-> <<>>, idx |-> 0, obj |-> NoEntity,
     sessions |-> 0, reads |-> 0, emitted |-> 0, exc |-> None, reraised |-> None,
     added |-> <<>>, prompt |-> NoPrompt]

\* a thread that has ended: its kind, its query and how it ended
Ended(th, pc) == [NoThread EXCEPT !.kind = th.kind, !.query = th.query, !.pc = pc]

Finish(th) == Ended(th, "done")

\* errorHandler's wrapper around a method of the window, body raising e: the
\* signal is emitted once and the exception raised again
errorHandler(th, e) ==
    [Ended(th, "raised") EXCEPT !.exc = e, !.emitted = th.emitted + 1, !.reraised = e]

\* deferred(func)(...): a new daemon thread; the caller does not wait
deferred(th, limit) ==
    \E t \in 1..limit :
        /\ threads[t].pc = "none"
        /\ \A u \in 1..(t - 1) : threads[u].pc # "none"
        /\ threads' = [threads EXCEPT ![t] = th]

-----------------------------------------------------------------------------
(* The handlers of the GUI thread. *)

\* QueryEdit.keyPressEvent / mousePressEvent: the text becomes q (q may be
\* the text as it is) and setupCompleter runs, which calls
\* EntityCache.types() until it has succeeded once.
setupCompleter(fails) ==
    IF completerSet
    THEN UNCHANGED <<completerSet, Types, env, typesCall>>
    ELSE \E out \in {"ok"} \cup fails :
            LET r == types(Types, FALSE, out)
            IN  /\ Types' = r.Types
                /\ typesCall' = typesWrapper(r, Types # NoTypes, FALSE)
                /\ env' = IF r.exc = None THEN env ELSE envAfterError(r.exc)
                /\ completerSet' = (r.exc = None)

keyPressEvent(q, fails) ==
    /\ guiPc = "idle"
    /\ queryText' = q
    /\ setupCompleter(fails)
    /\ UNCHANGED <<autoPop, captured, Entities, Cache, storage, items, threads, guiPc>>

\* EntityCache.types(session) called as its signature allows, with a session
\* of the caller's (given) or without
callTypes(given, fails) ==
    /\ guiPc = "idle"
    /\ \E out \in {"ok"} \cup fails :
          LET r == types(Types, given, out)
          IN  /\ Types' = r.Types
              /\ typesCall' = typesWrapper(r, Types # NoTypes, given)
              /\ env' = IF r.exc = None THEN env ELSE envAfterError(r.exc)
    /\ UNCHANGED <<queryText, completerSet, autoPop, captured, Entities, Cache,
                   storage, items, threads, guiPc>>

\* the 'Get All' and 'Get First' buttons.  The thread reads the query text
\* as its first statement, here before the user's next key press, and
\* returns at once when the text is empty.
StartQuery(kind, limit) ==
    /\ guiPc = "idle"
    /\ deferred([NoThread EXCEPT
                    !.kind = kind,
                    !.query = queryText,
                    !.idx = IF queryText = "" THEN 0 ELSE 1,
                    !.pc = IF queryText = "" THEN "done" ELSE "checkCredentials"],
                limit)
    /\ UNCHANGED <<queryText, completerSet, autoPop, env, captured, Types, Entities,
                   Cache, storage, items, guiPc, typesCall>>

executeAll(limit) == StartQuery("executeAll", limit)

executeFirst(limit) == StartQuery("executeFirst", limit)

\* the 'Enable auto-population' menu action.  A thread's auto is "False"
\* while auto-population has been disabled ever since the thread read it.
toggleAutoPopulate ==
    /\ guiPc = "idle"
    /\ autoPop' = ~autoPop
    /\ threads' = [t \in ThreadIds |->
                      IF threads[t].auto = "False"
                      THEN [threads[t] EXCEPT !.auto = "Lapsed"]
                      ELSE threads[t]]
    /\ UNCHANGED <<queryText, completerSet, env, captured, Types, Entities, Cache,
                   storage, items, guiPc, typesCall>>

\* clear() that ends the threads it finds running
clearRowsAndStop ==
    /\ guiPc = "idle"
    /\ items' = removeAllRows(items)
    /\ threads' = [t \in ThreadIds |->
                      IF threads[t].pc \in {"none", "done", "raised"} THEN threads[t]
                      ELSE Finish(threads[t])]
    /\ guiPc' = "clear"
    /\ UNCHANGED <<queryText, completerSet, autoPop, env, captured, Types, Entities,
                   Cache, storage, typesCall>>

\* clear(), first statement: removeRows.  The item objects that threads hold
\* are deleted with their rows.
clearRows ==
    /\ guiPc = "idle"
    /\ items' = removeAllRows(items)
    /\ threads' = [t \in ThreadIds |->
                      IF threads[t].parent = NoParent THEN threads[t]
                      ELSE [threads[t] EXCEPT !.parent = Stale]]
    /\ guiPc' = "clear"
    /\ UNCHANGED <<queryText, completerSet, autoPop, env, captured, Types, Entities,
                   Cache, storage, typesCall>>

\* clear(), second statement: EntityCache.reset()
clearCache ==
    /\ guiPc = "clear"
    /\ Cache' = reset(Cache)
    /\ guiPc' = "idle"
    /\ UNCHANGED <<queryText, completerSet, autoPop, env, captured, Types, Entities,
                   storage, items, threads, typesCall>>

\* the loadEntity thread populateChildren starts
LoadThread(type, ids, key, parent, loaded) ==
    [NoThread EXCEPT !.kind = "loadEntity", !.pc = "start", !.etype = type,
                     !.ids = ids, !.key = key, !.parent = parent, !.loaded = loaded]

\* populateChildren(index), on the expanded signal of an item with rows
populateChildren(p, limit) ==
    /\ guiPc = "idle"
    /\ p \in DOMAIN items
    /\ p # Root
    /\ items[p].rows # <<>>
    /\ IF items[p].Visit # None
       THEN IF items[p].AutoPopulate # "True" /\ autoPop /\ items[p].EntityKey = ""
            THEN /\ deferred(LoadThread(items[p].EntityType,
                                        Split(items[p].EntityPrimaryKey), "", p,
                                        ChildTexts(items, p)), limit)
                 /\ items' = [items EXCEPT ![p].AutoPopulate = "True"]
            ELSE UNCHANGED <<items, threads>>
       ELSE IF items[p].Dummy # None
            THEN /\ deferred(LoadThread(items[p].EntityType,
                                        Split(items[p].EntityPrimaryKey),
                                        items[p].EntityKey, p, <<>>), limit)
                 /\ items' = removeFirstRow(
                                [items EXCEPT ![p].Visit = "True",
                                              ![p].AutoPopulate =
                                                  IF autoPop THEN "True" ELSE "False"],
                                p)
            ELSE UNCHANGED <<items, threads>>
    /\ UNCHANGED <<queryText, completerSet, autoPop, env, captured, Types, Entities,
                   Cache, storage, guiPc, typesCall>>

-----------------------------------------------------------------------------
(* The steps of the worker threads.  fails is the set of exceptions a call *)
(* to the server may raise.                                                *)

SetThread(t, th) == threads' = [threads EXCEPT ![t] = th]

\* the step after createPopup number idx
AfterPopup(th) ==
    IF th.idx < Len(CredOrder)
    THEN [th EXCEPT !.pc = "checkCredentials", !.idx = @ + 1]
    ELSE [th EXCEPT !.pc = "query", !.idx = 0]

\* createPopup(key, ...), the test: if key in os.environ: return False
createPopup(t) ==
    LET th == threads[t]
        key == CredOrder[th.idx]
    IN  /\ th.pc = "checkCredentials"
        /\ SetThread(t, IF env[key] # Unset THEN AfterPopup(th)
                        ELSE [th EXCEPT !.pc = "getText"])
        /\ UNCHANGED <<queryText, completerSet, autoPop, env, captured, Types,
                       Entities, Cache, storage, items, guiPc, typesCall>>

\* createPopup, text = os.environ.get(key, default_value), with which
\* QInputDialog.getText opens
getText(t) ==
    LET th == threads[t]
        key == CredOrder[th.idx]
        text == IF env[key] # Unset THEN env[key] ELSE captured[key]
    IN  /\ th.pc = "getText"
        /\ SetThread(t, [th EXCEPT !.pc = "dialog",
                                   !.prompt = [key |-> key, text |-> text,
                                               answer |-> None]])
        /\ UNCHANGED <<queryText, completerSet, autoPop, env, captured, Types,
                       Entities, Cache, storage, items, guiPc, typesCall>>

\* the dialog closes: accepted with the text left as it was or typed over, or
\* cancelled
closeDialog(t) ==
    LET th == threads[t]
    IN  /\ th.pc = "dialog"
        /\ \E answer \in {th.prompt.text, "typed", "cancel"} :
              SetThread(t, [th EXCEPT !.pc = "answered", !.prompt.answer = answer])
        /\ UNCHANGED <<queryText, completerSet, autoPop, env, captured, Types,
                       Entities, Cache, storage, items, guiPc, typesCall>>

\* createPopup, after the dialog: if not valid: return False, else
\* os.environ[key] = value
setEnviron(t) ==
    LET th == threads[t]
        key == CredOrder[th.idx]
    IN  /\ th.pc = "answered"
        /\ env' = IF th.prompt.answer = "cancel" THEN env
                  ELSE [env EXCEPT ![key] = th.prompt.answer]
        /\ SetThread(t, AfterPopup([th EXCEPT !.prompt = NoPrompt]))
        /\ UNCHANGED <<queryText, completerSet, autoPop, captured, Types, Entities,
                       Cache, storage, items, guiPc, typesCall>>

\* with ftrack_api.Session() as session, then session.query(query): every
\* result for executeAll, .first() for executeFirst; a KeyError is printed and
\* ends the thread
query(t, fails) ==
    LET th == [threads[t] EXCEPT !.sessions = @ + 1]
        all == QueryResults(th.query)
        found == IF th.kind = "executeFirst" THEN Take(all, 1) ELSE all
    IN  /\ th.pc = "query"
        /\ IF QueryIsInvalid(th.query)
           THEN SetThread(t, Finish(th)) /\ env' = env
           ELSE \E out \in {"ok"} \cup fails :
                   IF out = "ok"
                   THEN /\ SetThread(t, IF found = <<>> THEN Finish(th)
                                        ELSE [th EXCEPT !.pc = "cacheCheck",
                                                        !.ents = found, !.idx = 1,
                                                        !.obj = [e |-> found[1], by |-> t]])
                        /\ env' = env
                   ELSE /\ SetThread(t, errorHandler(th, out))
                        /\ env' = envAfterError(out)
        /\ UNCHANGED <<queryText, completerSet, autoPop, captured, Types, Entities,
                       Cache, storage, items, guiPc, typesCall>>

\* where _loadEntity goes on after cache = EntityCache(entity)
AfterCache(th) ==
    IF th.kind # "loadEntity" THEN [th EXCEPT !.pc = "addItem"]
    ELSE IF th.key # "" THEN [th EXCEPT !.pc = "readKey"]
    ELSE [th EXCEPT !.pc = "loadKeys", !.idx = 1, !.loaded = Sorted(@)]

\* EntityCache.__init__, the test: self.id not in self.Entities
cacheCheck(t) ==
    LET th == threads[t]
        absent == Entities[entityReprOf(th.obj.e)] = NoEntity
    IN  /\ th.pc = "cacheCheck"
        /\ SetThread(t, IF absent THEN [th EXCEPT !.pc = "cacheSet"]
                        ELSE AfterCache(th))
        /\ UNCHANGED <<queryText, completerSet, autoPop, env, captured, Types,
                       Entities, Cache, storage, items, guiPc, typesCall>>

\* EntityCache.__init__, the assignment: self.Entities[self.id] = entity
cacheSet(t) ==
    LET th == threads[t]
        name == entityReprOf(th.obj.e)
    IN  /\ th.pc = "cacheSet"
        /\ Entities' = [Entities EXCEPT ![name] = th.obj]
        /\ storage' = IF Entities[name] = th.obj THEN storage
                      ELSE [storage EXCEPT ![name] = {}]
        /\ SetThread(t, AfterCache(th))
        /\ UNCHANGED <<queryText, completerSet, autoPop, env, captured, Types,
                       Cache, items, guiPc, typesCall>>

\* _loadEntity with no parent: addItem(root, None, entity, entity)
addTopLevel(t) ==
    LET th == threads[t]
        e == th.obj.e
    IN  /\ th.pc = "addItem"
        /\ items' = addItem(items, Root, None, EntityValue(e), e, -1)
        /\ SetThread(t, [th EXCEPT !.pc = "load",
                                   !.added = Append(@, <<None, entityReprOf(e)>>)])
        /\ UNCHANGED <<queryText, completerSet, autoPop, env, captured, Types,
                       Entities, Cache, storage, guiPc, typesCall>>

\* EntityCache.load(entity), whose own EntityCache(entity) finds the name
\* registered, then the next result of the query
cacheLoad(t) ==
    LET th == threads[t]
    IN  /\ th.pc = "load"
        /\ Cache' = load(Cache, th.obj.e)
        /\ SetThread(t, IF th.idx < Len(th.ents)
                        THEN [th EXCEPT !.pc = "cacheCheck", !.idx = @ + 1,
                                        !.obj = [e |-> th.ents[th.idx + 1], by |-> t]]
                        ELSE Finish(th))
        /\ UNCHANGED <<queryText, completerSet, autoPop, env, captured, Types,
                       Entities, storage, items, guiPc, typesCall>>

\* loadEntity up to its loop: self.autoPopulate() decides between a session
\* and the cache; with a session, session.get(entityType, entityID) is asked
\* twice and gives the entity, or None ('Could not find entity.')
start(t, fails) ==
    LET th == [threads[t] EXCEPT !.auto = IF autoPop THEN "True" ELSE "False"]
        opened == [th EXCEPT !.sessions = @ + 1]
        e == SessionGet(th.etype, th.ids)
    IN  /\ th.pc = "start"
        /\ IF ~autoPop
           THEN /\ SetThread(t, [th EXCEPT !.pc = "types"])
                /\ env' = env
           ELSE \E out \in {"ok"} \cup fails :
                   IF out = "ok"
                   THEN /\ SetThread(t, IF e = None THEN Finish(opened)
                                        ELSE [opened EXCEPT !.pc = "cacheCheck",
                                                            !.obj = [e |-> e, by |-> t]])
                        /\ env' = env
                   ELSE /\ SetThread(t, errorHandler(opened, out))
                        /\ env' = envAfterError(out)
        /\ UNCHANGED <<queryText, completerSet, autoPop, captured, Types, Entities,
                       Cache, storage, items, guiPc, typesCall>>

\* name = entityRepr(EntityCache.types()[entityType], entityID) and
\* EntityCache.entity(name); entities stays unbound when there is none
lookup(th, typesResult) ==
    LET name == entityRepr(th.etype, th.ids)
    IN  IF th.etype \notin typesResult THEN errorHandler(th, "KeyError")
        ELSE IF entity(name) = NoEntity THEN errorHandler(th, "UnboundLocalError")
        ELSE [th EXCEPT !.pc = "cacheCheck", !.obj = entity(name)]

\* EntityCache.types() from loadEntity, the test: if not cls.Types
typesCheck(t) ==
    LET th == threads[t]
        r == types(Types, FALSE, "ok")
    IN  /\ th.pc = "types"
        /\ IF Types # NoTypes
           THEN /\ typesCall' = typesWrapper(r, TRUE, FALSE)
                /\ SetThread(t, lookup(th, r.result))
           ELSE /\ typesCall' = typesCall
                /\ SetThread(t, [th EXCEPT !.pc = "typesOpen"])
        /\ UNCHANGED <<queryText, completerSet, autoPop, env, captured, Types,
                       Entities, Cache, storage, items, guiPc>>

\* EntityCache.types() from loadEntity, the session it opens.  When it
\* fails, loadEntity's own wrapper gets the AttributeError of the inner one.
typesOpen(t, fails) ==
    LET th == [threads[t] EXCEPT !.sessions = @ + 1]
    IN  /\ th.pc = "typesOpen"
        /\ \E out \in {"ok"} \cup fails :
              LET r == types(NoTypes, FALSE, out)
                  w == typesWrapper(r, FALSE, FALSE)
              IN  /\ typesCall' = w
                  /\ IF r.exc = None
                     THEN /\ Types' = r.Types
                          /\ env' = env
                          /\ SetThread(t, lookup(th, r.result))
                     ELSE /\ Types' = Types
                          /\ env' = envAfterError(r.exc)
                          /\ SetThread(t, errorHandler(th, w.reraised))
        /\ UNCHANGED <<queryText, completerSet, autoPop, captured, Entities, Cache,
                       storage, items, guiPc>>

\* the attribute storage after entity[key] was read for the object obj
storageAfterRead(obj, key) ==
    LET name == entityReprOf(obj.e)
    IN  IF Entities[name] = obj /\ key \notin DefaultLoaded(obj.e)
        THEN [storage EXCEPT ![name] = @ \cup {key}]
        ELSE storage

\* _loadEntity with a key: value = entity[key], read from the server unless
\* the object has it
readKey(t, fails) ==
    LET th == threads[t]
        e == th.obj.e
        remote == ~isKeyLoaded(th.obj, th.key)
        read == [th EXCEPT !.reads = IF remote THEN @ + 1 ELSE @]
        values == IF AttributeKind(EntityTypeOf(e), th.key) = "collection"
                  THEN CollectionOf(e, th.key)
                  ELSE [i \in 1..Len(KeyValueItemsOf(e, th.key)) |->
                           KeyValueItemsOf(e, th.key)[i][1]]
    IN  /\ th.pc = "readKey"
        /\ \E out \in {"ok"} \cup (IF remote THEN fails ELSE {}) :
              IF out = "ok"
              THEN /\ SetThread(t, IF values = <<>> THEN Finish(read)
                                   ELSE [read EXCEPT !.pc = "addRows", !.ents = values,
                                                     !.idx = 1])
                   /\ storage' = storageAfterRead(th.obj, th.key)
                   /\ env' = env
              ELSE /\ SetThread(t, errorHandler(read, out))
                   /\ storage' = storage
                   /\ env' = envAfterError(out)
        /\ UNCHANGED <<queryText, completerSet, autoPop, captured, Types, Entities,
                       Cache, items, guiPc, typesCall>>

\* one row of a collection: addItem(parent, None, v, v), or of a key-value
\* collection: addItem(parent, k, v, v).  A deleted parent item raises the
\* RuntimeError that ends loadEntity's loop.
addRows(t) ==
    LET th == threads[t]
        v == th.ents[th.idx]
        isCollection == AttributeKind(EntityTypeOf(th.obj.e), th.key) = "collection"
        text == IF isCollection THEN entityReprOf(v) ELSE v
        done == [th EXCEPT !.added = Append(@, <<th.key, text>>)]
    IN  /\ th.pc = "addRows"
        /\ IF th.parent \notin DOMAIN items
           THEN /\ SetThread(t, Finish(th))
                /\ items' = items
           ELSE /\ items' = IF isCollection
                            THEN addItem(items, th.parent, None, EntityValue(v), v, -1)
                            ELSE addItem(items, th.parent, v, ScalarValue, v, -1)
                /\ SetThread(t, IF th.idx < Len(th.ents)
                                THEN [done EXCEPT !.idx = @ + 1]
                                ELSE Finish(done))
        /\ UNCHANGED <<queryText, completerSet, autoPop, env, captured, Types,
                       Entities, Cache, storage, guiPc, typesCall>>

\* the keys _loadEntity walks: sorted(entity.keys()), less 'descendants' for
\* a Project
KeysToLoad(e) ==
    SortedKeys(EntityKeys(e) \ (IF EntityTypeOf(e) = "Project" THEN {"descendants"} ELSE {}))

InSeq(x, seq) == \E i \in 1..Len(seq) : seq[i] = x

\* the row for key among the rows named in _loaded: the index of the first
\* one that sorts after it, or -1 for None
RowFor(loaded, key) ==
    IF \E i \in 1..Len(loaded) : Rank(loaded[i]) > Rank(key)
    THEN (CHOOSE i \in 1..Len(loaded) :
              /\ Rank(loaded[i]) > Rank(key)
              /\ \A j \in 1..(i - 1) : Rank(loaded[j]) <= Rank(key)) - 1
    ELSE -1

\* _loadEntity without a key, one turn of the loop over the sorted keys
loadKeys(t, fails) ==
    LET th == threads[t]
        e == th.obj.e
        name == entityReprOf(e)
        keys == KeysToLoad(e)
        key == keys[th.idx]
        kind == AttributeKind(EntityTypeOf(e), key)
        remote == ~isKeyLoaded(th.obj, key)
        Continue(th2) == IF th.idx < Len(keys) THEN [th2 EXCEPT !.idx = @ + 1]
                         ELSE Finish(th2)
        row == RowFor(th.loaded, key)
        \* addItem(parent, key, value, entity, row=row)
        AddRow(th2) ==
            IF th.parent \notin DOMAIN items
            THEN /\ SetThread(t, Finish(th2))
                 /\ items' = items
            ELSE /\ items' = addItem(items, th.parent, key, ValueOf(e, key), e, row)
                 /\ SetThread(t, Continue(
                        [th2 EXCEPT !.added = Append(@, <<key, key>>),
                                    !.loaded = IF row < 0 THEN @ ELSE InsertAt(@, row, key)]))
    IN  /\ th.pc = "loadKeys"
        /\ IF InSeq(key, th.loaded)
           THEN /\ SetThread(t, Continue(th))
                /\ UNCHANGED <<items, Cache, storage, env>>
           ELSE IF key \in Cache[name]
           THEN /\ AddRow(th)
                /\ UNCHANGED <<Cache, storage, env>>
           ELSE IF ~autoPop
           THEN /\ SetThread(t, Continue(th))
                /\ UNCHANGED <<items, Cache, storage, env>>
           ELSE IF kind \in {"collection", "keyvalue"}
           THEN /\ AddRow(th)
                /\ UNCHANGED <<Cache, storage, env>>
           ELSE \E out \in {"ok"} \cup (IF remote THEN fails ELSE {}) :
                   LET read == [th EXCEPT !.reads = IF remote THEN @ + 1 ELSE @]
                   IN  IF out = "ok"
                       THEN /\ Cache' = [Cache EXCEPT ![name] = @ \cup {key}]
                            /\ storage' = storageAfterRead(th.obj, key)
                            /\ AddRow(read)
                            /\ env' = env
                       ELSE IF IsServerError(out)
                       THEN /\ SetThread(t, Continue(read))
                            /\ UNCHANGED <<items, Cache, storage, env>>
                       ELSE /\ SetThread(t, errorHandler(read, out))
                            /\ env' = envAfterError(out)
                            /\ UNCHANGED <<items, Cache, storage>>
        /\ UNCHANGED <<queryText, completerSet, autoPop, captured, Types, Entities,
                       guiPc, typesCall>>

-----------------------------------------------------------------------------
(* The program after FTrackExplorer.__init__, and its runs. *)

\* __init__ remembers each variable, or its default when it is not set
capturedFrom(environ) ==
    [v \in EnvVars |-> IF environ[v] = Unset THEN "default" ELSE environ[v]]

InitWith(environ) ==
    /\ queryText = ""
    /\ completerSet = FALSE
    /\ autoPop = TRUE
    /\ env = environ
    /\ captured = capturedFrom(environ)
    /\ Types = NoTypes
    /\ Entities = [n \in Names |-> NoEntity]
    /\ Cache = [n \in Names |-> {}]
    /\ storage = [n \in Names |-> {}]
    /\ items = EmptyModel
    /\ threads = [t \in ThreadIds |-> NoThread]
    /\ guiPc = "idle"
    /\ typesCall = NoCall

\* the window is built with the three variables set
Init == InitWith([v \in EnvVars |-> "env"])

\* the steps of an executeAll or executeFirst thread
QueryThread(t, fails) ==
    \/ createPopup(t)
    \/ query(t, fails)
    \/ cacheCheck(t)
    \/ cacheSet(t)
    \/ addTopLevel(t)
    \/ cacheLoad(t)

\* the steps of a loadEntity thread, less those it shares with QueryThread
LoadEntityThread(t, fails) ==
    \/ start(t, fails)
    \/ typesCheck(t)
    \/ typesOpen(t, fails)
    \/ readKey(t, fails)
    \/ addRows(t)
    \/ loadKeys(t, fails)

\* The query line: the user types any query and presses Get All and Get
\* First, and expands nothing.  A call to the server may fail.
Next ==
    \/ \E q \in Queries : keyPressEvent(q, PlainFails)
    \/ executeAll(MaxThreads)
    \/ executeFirst(MaxThreads)
    \/ \E t \in ThreadIds : QueryThread(t, PlainFails)

Spec == Init /\ [][Next]_vars

\* The whole window: the user types the query 'Task', presses Get First and
\* Clear, expands items and toggles auto-population.  A call to the server
\* may fail.
NextTree ==
    \/ keyPressEvent("Task", PlainFails)
    \/ executeFirst(TreeThreads)
    \/ toggleAutoPopulate
    \/ clearRows
    \/ clearCache
    \/ \E p \in DOMAIN items : populateChildren(p, TreeThreads)
    \/ \E t \in ThreadIds : QueryThread(t, PlainFails) \/ LoadEntityThread(t, PlainFails)

SpecTree == Init /\ [][NextTree]_vars

\* The credentials: the window is built with the three variables set or
\* with one of them missing, the user types the query 'Note', which has no
\* result, presses Get All and Get First and answers the dialogs.  The
\* entity types load; a query may fail in every way.
Environs ==
    {environ \in [EnvVars -> {Unset, "env"}] :
        Cardinality({v \in EnvVars : environ[v] = Unset}) <= 1}

InitCred == \E environ \in Environs : InitWith(environ)

NextCred ==
    \/ keyPressEvent("Note", {})
    \/ executeAll(MaxThreads)
    \/ executeFirst(MaxThreads)
    \/ \E t \in ThreadIds :
          \/ createPopup(t)
          \/ getText(t)
          \/ closeDialog(t)
          \/ setEnviron(t)
          \/ query(t, AllFails)

SpecCred == InitCred /\ [][NextCred]_vars

\* EntityCache.types and EntityCache.reset on their own: the window is built
\* as for the credentials, the user types, presses Clear, and types is called
\* with and without a session.  A call to the server may fail in every way.
NextTypes ==
    \/ keyPressEvent("Task", AllFails)
    \/ \E given \in BOOLEAN : callTypes(given, AllFails)
    \/ clearRows
    \/ clearCache

SpecTypes == InitCred /\ [][NextTypes]_vars

-----------------------------------------------------------------------------
(* The properties checked. *)

Running(th) == th.pc \notin {"none", "done", "raised"}

IsQuery(th) == th.kind \in {"executeAll", "executeFirst"}

\* the texts of the top-level rows, in display order
TopRows(its) == ChildTexts(its, Root)

\* the rows a query thread is to add: one per result, or one for the first
Wanted(th) ==
    LET all == QueryResults(th.query)
    IN  IF th.kind = "executeAll" THEN [i \in 1..Len(all) |-> entityReprOf(all[i])]
        ELSE IF all = <<>> THEN <<>> ELSE <<entityReprOf(all[1])>>

RowTexts(added) == [i \in 1..Len(added) |-> added[i][2]]

\* C4: a thread of executeAll or executeFirst whose query text is empty has
\* ended as soon as it started, with no prompt, no session and no row; every
\* row such a thread adds is one new top-level row below the others, and the
\* top-level rows change in no other way; a thread that ends without an error
\* on a query the server accepts has added one row per result in result order
\* (executeAll) or one row for the first result, if any (executeFirst).
QueryAddsRowPerResult ==
    /\ [](\A t \in ThreadIds :
            LET th == threads[t]
            IN  (IsQuery(th) /\ th.query = "") =>
                    /\ th.pc = "done"
                    /\ th.prompt = NoPrompt
                    /\ th.sessions = 0
                    /\ th.added = <<>>)
    /\ [][\A t \in ThreadIds :
            LET th == threads[t]
                after == threads'[t]
            IN  /\ (IsQuery(th) /\ Running(th) /\ after.pc = "done"
                        /\ ~QueryIsInvalid(th.query)) =>
                       RowTexts(th.added) = Wanted(th)
                /\ (IsQuery(th) /\ after.added # th.added /\ Running(after)) =>
                       /\ Len(after.added) = Len(th.added) + 1
                       /\ TopRows(items') =
                              Append(TopRows(items), after.added[Len(after.added)][2])]_vars
    /\ [][TopRows(items') # TopRows(items) =>
              \E t \in ThreadIds : Len(threads'[t].added) = Len(threads[t].added) + 1]_vars

\* executeAll is about to end on the query 'Task' with its two rows added
QueryAddsRowPerResultWitness ==
    \E t \in ThreadIds :
        /\ threads[t].kind = "executeAll"
        /\ threads[t].pc = "load"
        /\ threads[t].idx = 2
        /\ RowTexts(threads[t].added) = Wanted(threads[t])
        /\ Len(TopRows(items)) >= 2

\* C3: whenever the body of a function that errorHandler wraps has raised an
\* exception, errorInThread was emitted exactly once for it and the caller
\* got that same exception: for the threads of executeAll, executeFirst and
\* loadEntity, and for the latest call of EntityCache.types.
ErrorEmittedOnceAndReraised ==
    /\ \A t \in ThreadIds :
          threads[t].pc = "raised" =>
              /\ threads[t].emitted = 1
              /\ threads[t].reraised = threads[t].exc
    /\ typesCall.exc # None =>
          /\ typesCall.emitted = 1
          /\ typesCall.reraised = typesCall.exc

\* C8: EntityCache.Entities changes only when an EntityCache is constructed
\* for a name that has no entity yet, which then gets the entity of that
\* construction; so entity(name) is None until the first construction for
\* the name and the first entity registered from then on.
FirstRegisteredEntityIsKept ==
    [][\A n \in Names :
          entity(n)' # entity(n) =>
              /\ entity(n) = NoEntity
              /\ \E t \in ThreadIds :
                    /\ threads[t].pc = "cacheSet"
                    /\ entityReprOf(threads[t].obj.e) = n
                    /\ entity(n)' = threads[t].obj]_vars

\* the variable that the claim pairs with each failure
Matching(e) ==
    CASE e = "ConnectionError" -> {"FTRACK_SERVER"}
      [] e = "ServerError: ftrack-user" -> {"FTRACK_API_USER"}
      [] e = "ServerError: ftrack-api-key" -> {"FTRACK_API_KEY"}
      [] OTHER -> {}

\* C6: the values remembered at construction stay; a thread that ends with a
\* ConnectionError or a ServerError naming a header leaves the matching
\* variable unset; a thread of executeAll or executeFirst walks the three
\* variables in order, passes by a variable only when it is set, and opens a
\* dialog only for a variable that is unset at that moment, with the
\* remembered value as its text; when the dialog has closed the variable is
\* the entered value, or as it was after a cancel.
CredentialsPromptedWhenUnset ==
    /\ [][captured' = captured]_vars
    /\ [][\A t \in ThreadIds :
            LET th == threads[t]
                after == threads'[t]
                key == CredOrder[th.idx]
            IN  /\ (th.pc # "raised" /\ after.pc = "raised") =>
                       \A v \in Matching(after.exc) : env'[v] = Unset
                /\ (th.pc = "checkCredentials" /\ after # th) =>
                       (after.pc = "getText" <=> env[key] = Unset)
                /\ (th.pc # "dialog" /\ after.pc = "dialog") =>
                       /\ after.prompt.key = key
                       /\ env[key] = Unset
                       /\ after.prompt.text = captured[key]
                /\ (th.pc = "answered" /\ after # th) =>
                       env' = IF th.prompt.answer = "cancel" THEN env
                              ELSE [env EXCEPT ![key] = th.prompt.answer]]_vars

\* C2: when clear returns, the tree model has no row and no entity has a
\* cached key.
ClearRemovesAllData ==
    [][(guiPc = "clear" /\ guiPc' = "idle") =>
          /\ rowCount(items', Root) = 0
          /\ \A n \in Names : Cache'[n] = {}]_vars

\* C9: a loadEntity thread that started with auto-population disabled, in a
\* step taken while it has stayed disabled, opens no session, reads no
\* attribute value from the server, takes its entity from
\* EntityCache.Entities, and adds a row only for a key in the entity's cache.
DisabledLoadsFromCacheOnly ==
    [][\A t \in ThreadIds :
          LET th == threads[t]
              after == threads'[t]
          IN  (th.kind = "loadEntity" /\ th.auto = "False" /\ Running(th)
                   /\ ~autoPop /\ ~autoPop' /\ Running(after)) =>
                  /\ after.sessions = th.sessions
                  /\ after.reads = th.reads
                  /\ (after.obj # th.obj) =>
                         after.obj = entity(entityRepr(th.etype, th.ids))
                  /\ (after.added # th.added) =>
                         after.added[Len(after.added)][1]
                             \in Cache[entityReprOf(th.obj.e)]]_vars

\* C6, amended: as CredentialsPromptedWhenUnset, but the dialog opens for a
\* variable that was unset when the thread tested it, and its text is the
\* remembered value unless the variable has been set since the test, when it
\* is the variable's value.
CredentialsPromptedWhenTestedUnset ==
    /\ [][captured' = captured]_vars
    /\ [][\A t \in ThreadIds :
            LET th == threads[t]
                after == threads'[t]
                key == CredOrder[th.idx]
            IN  /\ (th.pc # "raised" /\ after.pc = "raised") =>
                       \A v \in Matching(after.exc) : env'[v] = Unset
                /\ (th.pc = "checkCredentials" /\ after # th) =>
                       (after.pc = "getText" <=> env[key] = Unset)
                /\ (th.pc # "getText" /\ after.pc = "getText") =>
                       th.pc = "checkCredentials"
                /\ (th.pc # "dialog" /\ after.pc = "dialog") =>
                       /\ th.pc = "getText"
                       /\ after.prompt.key = key
                       /\ after.prompt.text =
                              IF env[key] = Unset THEN captured[key] ELSE env[key]
                /\ (th.pc = "answered" /\ after # th) =>
                       env' = IF th.prompt.answer = "cancel" THEN env
                              ELSE [env EXCEPT ![key] = th.prompt.answer]]_vars

\* a dialog is open for FTRACK_SERVER, which was set when the window was
\* built and has been deleted since, with the remembered value as its text
CredentialsPromptedWitness ==
    \E t \in ThreadIds :
        /\ threads[t].pc = "dialog"
        /\ threads[t].prompt.key = "FTRACK_SERVER"
        /\ captured["FTRACK_SERVER"] = "env"
        /\ threads[t].prompt.text = "env"
        /\ env["FTRACK_SERVER"] = Unset

\* C7: a call of EntityCache.types that found the types cached opened no
\* session, raised nothing and returned the cached types; a call given a
\* session opened none; the cached types, once there, never change, and
\* clear, with its EntityCache.reset, leaves them as they are.
TypesCachedOnce ==
    /\ [](typesCall.hadTypes =>
              /\ ~typesCall.opened
              /\ typesCall.exc = None
              /\ typesCall.result = Types)
    /\ [](typesCall.given => ~typesCall.opened)
    /\ [][Types # NoTypes => Types' = Types]_vars
    /\ [][(guiPc = "clear" /\ guiPc' = "idle") => Types' = Types]_vars

\* types was called with the types cached, and Clear is under way
TypesCachedOnceWitness ==
    /\ typesCall.hadTypes
    /\ typesCall.result = Schema
    /\ Types = Schema
    /\ guiPc = "clear"

\* the threads a step starts
Started == {t \in ThreadIds : threads[t].pc = "none" /\ threads'[t].pc # "none"}

\* a thread as the GUI thread can leave it: the item it holds may be deleted,
\* and auto-population may be enabled
Untouched(th, after) ==
    /\ [after EXCEPT !.parent = th.parent, !.auto = th.auto] = th
    /\ after.parent \in {th.parent, Stale}
    /\ after.auto \in {th.auto, "Lapsed"}

\* the item paths that a step keeps
Kept == (DOMAIN items \cap DOMAIN items') \ {Root}

OnlyDummy(its, p) ==
    /\ rowCount(its, p) = 1
    /\ its[ChildPath(p, 1, its)].text = DummyText
    /\ its[ChildPath(p, 1, its)].rows = <<>>

\* the texts of the rows addItem makes for an entity or a collection
LazyTexts == Names \cup {"project", "children", "descendants", "metadata"}

\* C1: an item that addItem made for an entity, a collection or a key-value
\* collection carries the dummy roles; as long as such an item is not
\* visited, the '<not loaded>' row is its only row and no thread loads into
\* it; its roles stay as addDummyItem set them; and the step that visits it
\* removes the dummy row and starts exactly one loadEntity thread, for the
\* entity type, the primary keys and the key of its roles.
LazyExpansion ==
    /\ [](\A p \in DOMAIN items \ {Root} :
            /\ items[p].text \in LazyTexts => items[p].Dummy = "True"
            /\ (items[p].Dummy = "True" /\ items[p].Visit = None) =>
                   /\ OnlyDummy(items, p)
                   /\ \A t \in ThreadIds : threads[t].parent # p)
    /\ [][\A p \in DOMAIN items' \ DOMAIN items :
            items'[p].text \in LazyTexts =>
                /\ items'[p].Dummy = "True"
                /\ items'[p].Visit = None
                /\ OnlyDummy(items', p)]_vars
    /\ [][\A p \in Kept :
            /\ items[p].Dummy = "True" =>
                   /\ items'[p].EntityType = items[p].EntityType
                   /\ items'[p].EntityPrimaryKey = items[p].EntityPrimaryKey
                   /\ items'[p].EntityKey = items[p].EntityKey
            /\ (items[p].Dummy = "True" /\ items[p].Visit = None
                    /\ items'[p].Visit # None) =>
                   /\ items'[p].Visit = "True"
                   /\ items'[p].rows = <<>>
                   /\ ChildPath(p, 1, items) \notin DOMAIN items'
                   /\ Cardinality(Started) = 1
                   /\ \A t \in Started :
                         /\ threads'[t].kind = "loadEntity"
                         /\ threads'[t].pc = "start"
                         /\ threads'[t].parent = p
                         /\ threads'[t].etype = items[p].EntityType
                         /\ threads'[t].ids = Split(items[p].EntityPrimaryKey)
                         /\ threads'[t].key = items[p].EntityKey]_vars
    /\ [][\A t \in Started :
            threads'[t].kind = "loadEntity" =>
                \E p \in Kept :
                    /\ threads'[t].parent = p
                    /\ items'[p].Visit = "True"]_vars

\* the item of a collection has just been expanded for the first time: the
\* thread that is to load the collection has not run yet
LazyExpansionWitness ==
    \E t \in ThreadIds :
        /\ threads[t].kind = "loadEntity"
        /\ threads[t].pc = "start"
        /\ threads[t].key = "children"
        /\ threads[t].parent \in DOMAIN items
        /\ items[threads[t].parent].Visit = "True"
        /\ items[threads[t].parent].rows = <<>>

====
